---- MODULE Spec2Model ----
(***************************************************************************)
(* Flood susceptibility ROC-AUC app (src/app.py): one run of the script,   *)
(* from the three file uploaders through sampling, label assembly, NaN     *)
(* removal, roc_curve, auc, the AUC output and the plot, with the          *)
(* try/except around the pipeline and the else branch of the upload guard. *)
(*                                                                         *)
(* Scores are integers (tenths of the raster value); NaN is a distinguished*)
(* value.  Rates are exact fractions [num, den]; den = 0 is floating-point *)
(* nan (0/0).                                                              *)
(***************************************************************************)
EXTENDS Integers, Sequences, FiniteSets, TLC

VARIABLES flood_zip, nonflood_zip, susceptibility_raster,
          pc, raster, flood_vals, nonflood_vals,
          y_true, y_scores, fpr, tpr, thresholds, roc_auc, out

vars == <<flood_zip, nonflood_zip, susceptibility_raster, pc, raster,
          flood_vals, nonflood_vals, y_true, y_scores, fpr, tpr, thresholds,
          roc_auc, out>>

(***************************************************************************)
(* Bounds of the model                                                     *)
(***************************************************************************)
\* points per class drawn by the sampling step
MaxPts == 2
\* valid raster values are 1..MaxScore
MaxScore == 2

(***************************************************************************)
(* Values                                                                  *)
(***************************************************************************)
\* not-a-number, the only value np.isnan recognises
NaN == -1
\* the raster's numeric no-data fill, returned by raster.sample for no-data
\* cells and for points outside the raster
NoDataValue == 0

ValidScores == 1..MaxScore
SampleValues == ValidScores \cup {NaN, NoDataValue}

\* the positive label sklearn picks when pos_label is None
pos_label == 1

RECURSIVE SeqsUpTo(_, _)
SeqsUpTo(S, n) ==
    IF n = 0 THEN {<<>>}
    ELSE LET shorter == SeqsUpTo(S, n - 1)
         IN  shorter \cup {Append(s, x) : s \in {t \in shorter : Len(t) = n - 1}, x \in S}

\* the flood and non-flood samples of the documentation's end-to-end
\* scenarios, scores in tenths
ScenarioFloodVals == { <<9, 7, 4>>, <<5>>, <<>> }
ScenarioNonfloodVals == { <<6, 3, 1>>, <<5>>, <<2, 3>> }

\* what raster.sample can return for the flood points
FloodSamples == SeqsUpTo(SampleValues, MaxPts) \cup ScenarioFloodVals

\* what raster.sample can return for the non-flood points
NonfloodSamples == SeqsUpTo(SampleValues, MaxPts) \cup ScenarioNonfloodVals

(***************************************************************************)
(* numpy helpers                                                           *)
(***************************************************************************)
\* an array held in memory (np.ndarray): the values, not a rule to compute them
ndarray(f) == f \o <<>>

isnan(v) == v = NaN

ones(n) == ndarray([i \in 1..n |-> 1])
zeros(n) == ndarray([i \in 1..n |-> 0])
concatenate(a, b) == a \o b

\* boolean-mask indexing arr[valid]
RECURSIVE MaskIndex(_, _)
MaskIndex(arr, valid) ==
    IF arr = <<>> THEN <<>>
    ELSE (IF Head(valid) THEN <<Head(arr)>> ELSE <<>>)
             \o MaskIndex(Tail(arr), Tail(valid))

RECURSIVE SumTo(_, _)
SumTo(f, n) == IF n = 0 THEN 0 ELSE f[n] + SumTo(f, n - 1)

\* np.cumsum
cumsum(a) == ndarray([k \in 1..Len(a) |-> SumTo(a, k)])

diff(a) == ndarray([i \in 1..(Len(a) - 1) |-> a[i + 1] - a[i]])
diff2(a) == diff(diff(a))

\* the elements of a set of integers in increasing order (np.where / np.r_)
SortedSeq(S) ==
    ndarray([k \in 1..Cardinality(S) |->
        CHOOSE x \in S : Cardinality({y \in S : y < x}) = k - 1])

\* argsort(a, kind="mergesort"): stable, ascending
argsort_mergesort(a) ==
    ndarray([k \in 1..Len(a) |->
        CHOOSE i \in 1..Len(a) :
            Cardinality({j \in 1..Len(a) :
                a[j] < a[i] \/ (a[j] = a[i] /\ j < i)}) = k - 1])

Reverse(s) == ndarray([k \in 1..Len(s) |-> s[Len(s) + 1 - k]])

\* mutant: the scores are left in input order
argsort_desc_unsorted(a) == ndarray([k \in 1..Len(a) |-> k])

\* np.argsort(y_score, kind="mergesort")[::-1]
argsort_desc(a) == Reverse(argsort_mergesort(a))

(***************************************************************************)
(* Rates                                                                   *)
(***************************************************************************)
NaNRate == [num |-> 0, den |-> 0]
Rate(n, d) == [num |-> n, den |-> d]
RateIsNaN(r) == r.den = 0

(***************************************************************************)
(* sklearn.metrics.roc_curve and auc, as called with default arguments     *)
(***************************************************************************)
\* mutant: a threshold after every sample, tie groups split
distinct_value_indices_per_sample(ys) == {i \in 1..(Len(ys) - 1) : TRUE}

\* np.where(np.diff(y_score))[0]: the positions after which the score changes
distinct_value_indices(ys) == {i \in 1..(Len(ys) - 1) : ys[i + 1] # ys[i]}

\* mutant: the count of samples seen is taken one too high
fps_from_off_by_one(threshold_idxs, tps) ==
    ndarray([k \in 1..Len(threshold_idxs) |-> 1 + threshold_idxs[k] - tps[k]])

\* fps = 1 + threshold_idxs - tps (threshold_idxs 0-based there, 1-based here)
fps_from(threshold_idxs, tps) ==
    ndarray([k \in 1..Len(threshold_idxs) |-> threshold_idxs[k] - tps[k]])

\* _binary_clf_curve: sort by score descending, one threshold per distinct score
binary_clf_curve(yt, ys) ==
    LET n == Len(yt)
        desc == argsort_desc(ys)
        y_score == ndarray([k \in 1..n |-> ys[desc[k]]])
        y_pos == ndarray([k \in 1..n |-> IF yt[desc[k]] = pos_label THEN 1 ELSE 0])
        threshold_idxs == SortedSeq(distinct_value_indices(y_score) \cup {n})
        cum == cumsum(y_pos)
        tps == ndarray([k \in 1..Len(threshold_idxs) |-> cum[threshold_idxs[k]]])
    IN  [fps |-> fps_from(threshold_idxs, tps),
         tps |-> tps,
         thresholds |->
             ndarray([k \in 1..Len(threshold_idxs) |-> y_score[threshold_idxs[k]]])]

\* mutant: a point is kept only where both second differences are non-zero
optimal_idxs_and(fps, tps) ==
    IF Len(fps) > 2
    THEN SortedSeq({1, Len(fps)} \cup
             {i \in 2..(Len(fps) - 1) :
                 diff2(fps)[i - 1] # 0 /\ diff2(tps)[i - 1] # 0})
    ELSE ndarray([k \in 1..Len(fps) |-> k])

\* drop_intermediate=True: np.where(np.r_[True, np.logical_or(np.diff(fps, 2),
\* np.diff(tps, 2)), True])[0] when len(fps) > 2
optimal_idxs(fps, tps) ==
    IF Len(fps) > 2
    THEN SortedSeq({1, Len(fps)} \cup
             {i \in 2..(Len(fps) - 1) :
                 diff2(fps)[i - 1] # 0 \/ diff2(tps)[i - 1] # 0})
    ELSE ndarray([k \in 1..Len(fps) |-> k])

\* mutant: the curve is not made to start at the origin
prepend_origin_missing(a) == ndarray(a)

\* np.r_[0, a]
prepend_origin(a) == <<0>> \o a

\* fps / fps[-1], or an array of nan when fps[-1] <= 0
normalize(counts) ==
    LET last == counts[Len(counts)]
    IN  IF last <= 0
        THEN ndarray([k \in 1..Len(counts) |-> NaNRate])
        ELSE ndarray([k \in 1..Len(counts) |-> Rate(counts[k], last)])

\* y_true's classes must be one of these when pos_label is None
LabelsAccepted(yt) ==
    {yt[i] : i \in 1..Len(yt)} \in {{0, 1}, {-1, 1}, {0}, {1}, {-1}}

\* roc_curve(y_true, y_score): raises on an empty y_true, else the curve
roc_curve(yt, ys) ==
    IF ~LabelsAccepted(yt)
    THEN [raised |-> TRUE, fpr |-> <<>>, tpr |-> <<>>, thresholds |-> <<>>]
    ELSE LET c == binary_clf_curve(yt, ys)
             keep == optimal_idxs(c.fps, c.tps)
             fps == prepend_origin(ndarray([k \in 1..Len(keep) |-> c.fps[keep[k]]]))
             tps == prepend_origin(ndarray([k \in 1..Len(keep) |-> c.tps[keep[k]]]))
             thr == <<[inf |-> TRUE, value |-> 0]>> \o
                        [k \in 1..Len(keep) |->
                            [inf |-> FALSE, value |-> c.thresholds[keep[k]]]]
         IN  [raised |-> FALSE, fpr |-> normalize(fps), tpr |-> normalize(tps),
              thresholds |-> thr]

\* mutant: left rectangles instead of trapezoids
auc_rectangle(x, y) ==
    IF Len(x) < 2
    THEN [raised |-> TRUE, value |-> NaNRate]
    ELSE IF (\E i \in 1..Len(x) : RateIsNaN(x[i]) \/ RateIsNaN(y[i]))
         THEN [raised |-> FALSE, value |-> NaNRate]
         ELSE LET area == ndarray([i \in 1..(Len(x) - 1) |->
                              (x[i + 1].num - x[i].num) * (2 * y[i].num)])
              IN  [raised |-> FALSE,
                   value |-> Rate(SumTo(area, Len(x) - 1), 2 * x[1].den * y[1].den)]

\* auc(x, y): x must be monotonic; direction * np.trapz(y, x)
auc(x, y) ==
    IF Len(x) < 2
    THEN [raised |-> TRUE, value |-> NaNRate]
    ELSE IF (\E i \in 1..Len(x) : RateIsNaN(x[i]) \/ RateIsNaN(y[i]))
         THEN [raised |-> FALSE, value |-> NaNRate]
         ELSE LET dx == ndarray([i \in 1..(Len(x) - 1) |-> x[i + 1].num - x[i].num])
                  decreasing == \E i \in 1..Len(dx) : dx[i] < 0
                  allDown == \A i \in 1..Len(dx) : dx[i] <= 0
                  direction == IF decreasing THEN -1 ELSE 1
                  area == ndarray([i \in 1..Len(dx) |-> dx[i] * (y[i + 1].num + y[i].num)])
              IN  IF decreasing /\ ~allDown
                  THEN [raised |-> TRUE, value |-> NaNRate]
                  ELSE [raised |-> FALSE,
                        value |-> Rate(direction * SumTo(area, Len(dx)),
                                       2 * x[1].den * y[1].den)]

(***************************************************************************)
(* The label assembly and NaN removal of the script                        *)
(***************************************************************************)
\* mutant: any of the three uploads is enough
all_uploaded_any(f, n, r) == f \/ n \/ r

\* if flood_zip and nonflood_zip and susceptibility_raster
all_uploaded(f, n, r) == f /\ n /\ r

\* y_true = np.concatenate([np.ones(len(flood_vals)), np.zeros(len(nonflood_vals))])
assemble_true(fv, nv) == concatenate(ones(Len(fv)), zeros(Len(nv)))

\* y_scores = np.concatenate([flood_vals, nonflood_vals])
assemble_scores(fv, nv) == concatenate(fv, nv)

\* valid = ~np.isnan(y_scores)
valid_mask(ys) == ndarray([i \in 1..Len(ys) |-> ~isnan(ys[i])])

(***************************************************************************)
(* The run                                                                 *)
(***************************************************************************)
Init ==
    /\ flood_zip = FALSE
    /\ nonflood_zip = FALSE
    /\ susceptibility_raster = FALSE
    /\ pc = "upload"
    /\ raster = "closed"
    /\ flood_vals = <<>>
    /\ nonflood_vals = <<>>
    /\ y_true = <<>>
    /\ y_scores = <<>>
    /\ fpr = <<>>
    /\ tpr = <<>>
    /\ thresholds = <<>>
    /\ roc_auc = NaNRate
    /\ out = <<>>

\* the three st.file_uploader widgets: each file is supplied or not
Upload ==
    /\ pc = "upload"
    /\ \E f \in BOOLEAN, n \in BOOLEAN, r \in BOOLEAN :
          /\ flood_zip' = f
          /\ nonflood_zip' = n
          /\ susceptibility_raster' = r
    /\ pc' = "guard"
    /\ UNCHANGED <<raster, flood_vals, nonflood_vals, y_true, y_scores,
                   fpr, tpr, thresholds, roc_auc, out>>

\* the guard holds: the try block is entered
EnterTry ==
    /\ pc = "guard"
    /\ all_uploaded(flood_zip, nonflood_zip, susceptibility_raster)
    /\ pc' = "load"
    /\ UNCHANGED <<flood_zip, nonflood_zip, susceptibility_raster, raster,
                   flood_vals, nonflood_vals, y_true, y_scores, fpr, tpr,
                   thresholds, roc_auc, out>>

\* the else branch: st.info asks for all three files
ShowInfo ==
    /\ pc = "guard"
    /\ ~all_uploaded(flood_zip, nonflood_zip, susceptibility_raster)
    /\ out' = Append(out, "info")
    /\ pc' = "done"
    /\ UNCHANGED <<flood_zip, nonflood_zip, susceptibility_raster, raster,
                   flood_vals, nonflood_vals, y_true, y_scores, fpr, tpr,
                   thresholds, roc_auc>>

\* read_zipped_shapefile twice and rasterio.open; any of them may raise
LoadData ==
    /\ pc = "load"
    /\ \/ /\ raster' = "open"
          /\ pc' = "reproject"
       \/ /\ raster' = raster
          /\ pc' = "except"
    /\ UNCHANGED <<flood_zip, nonflood_zip, susceptibility_raster,
                   flood_vals, nonflood_vals, y_true, y_scores, fpr, tpr,
                   thresholds, roc_auc, out>>

\* to_crs(raster.crs) on both point sets; may raise
Reproject ==
    /\ pc = "reproject"
    /\ \/ pc' = "coords"
       \/ pc' = "except"
    /\ UNCHANGED <<flood_zip, nonflood_zip, susceptibility_raster, raster,
                   flood_vals, nonflood_vals, y_true, y_scores, fpr, tpr,
                   thresholds, roc_auc, out>>

\* flood_coords and nonflood_coords from the geometries; may raise
Coordinates ==
    /\ pc = "coords"
    /\ \/ pc' = "sample_flood"
       \/ pc' = "except"
    /\ UNCHANGED <<flood_zip, nonflood_zip, susceptibility_raster, raster,
                   flood_vals, nonflood_vals, y_true, y_scores, fpr, tpr,
                   thresholds, roc_auc, out>>

\* flood_vals = np.array([... raster.sample(flood_coords)]); may raise, and
\* then flood_vals is not bound
SampleFlood ==
    /\ pc = "sample_flood"
    /\ \/ /\ \E fv \in FloodSamples : flood_vals' = fv
          /\ pc' = "sample_nonflood"
       \/ /\ flood_vals' = flood_vals
          /\ pc' = "except"
    /\ UNCHANGED <<flood_zip, nonflood_zip, susceptibility_raster, raster,
                   nonflood_vals, y_true, y_scores, fpr, tpr, thresholds,
                   roc_auc, out>>

\* nonflood_vals = np.array([... raster.sample(nonflood_coords)]); may raise,
\* and then flood_vals keeps the flood samples
SampleNonflood ==
    /\ pc = "sample_nonflood"
    /\ \/ /\ \E nv \in NonfloodSamples : nonflood_vals' = nv
          /\ pc' = "assemble_true"
       \/ /\ nonflood_vals' = nonflood_vals
          /\ pc' = "except"
    /\ UNCHANGED <<flood_zip, nonflood_zip, susceptibility_raster, raster,
                   flood_vals, y_true, y_scores, fpr, tpr, thresholds,
                   roc_auc, out>>

\* y_true by concatenation of the labels
AssembleTrue ==
    /\ pc = "assemble_true"
    /\ y_true' = assemble_true(flood_vals, nonflood_vals)
    /\ pc' = "assemble_scores"
    /\ UNCHANGED <<flood_zip, nonflood_zip, susceptibility_raster, raster,
                   flood_vals, nonflood_vals, y_scores, fpr, tpr, thresholds,
                   roc_auc, out>>

\* y_scores by concatenation of the samples
AssembleScores ==
    /\ pc = "assemble_scores"
    /\ y_scores' = assemble_scores(flood_vals, nonflood_vals)
    /\ pc' = "filter"
    /\ UNCHANGED <<flood_zip, nonflood_zip, susceptibility_raster, raster,
                   flood_vals, nonflood_vals, y_true, fpr, tpr, thresholds,
                   roc_auc, out>>

\* Remove NaNs: y_true, y_scores = y_true[valid], y_scores[valid]
RemoveNaNs ==
    /\ pc = "filter"
    /\ LET valid == valid_mask(y_scores)
       IN  /\ y_true' = MaskIndex(y_true, valid)
           /\ y_scores' = MaskIndex(y_scores, valid)
    /\ pc' = "roc"
    /\ UNCHANGED <<flood_zip, nonflood_zip, susceptibility_raster, raster,
                   flood_vals, nonflood_vals, fpr, tpr, thresholds, roc_auc, out>>

\* fpr, tpr, _ = roc_curve(y_true, y_scores)
ComputeRoc ==
    /\ pc = "roc"
    /\ LET r == roc_curve(y_true, y_scores)
       IN  IF r.raised
           THEN /\ pc' = "except"
                /\ UNCHANGED <<fpr, tpr, thresholds>>
           ELSE /\ fpr' = r.fpr
                /\ tpr' = r.tpr
                /\ thresholds' = r.thresholds
                /\ pc' = "auc"
    /\ UNCHANGED <<flood_zip, nonflood_zip, susceptibility_raster, raster,
                   flood_vals, nonflood_vals, y_true, y_scores, roc_auc, out>>

\* roc_auc = auc(fpr, tpr)
ComputeAuc ==
    /\ pc = "auc"
    /\ LET a == auc(fpr, tpr)
       IN  IF a.raised
           THEN /\ pc' = "except"
                /\ UNCHANGED roc_auc
           ELSE /\ roc_auc' = a.value
                /\ pc' = "output"
    /\ UNCHANGED <<flood_zip, nonflood_zip, susceptibility_raster, raster,
                   flood_vals, nonflood_vals, y_true, y_scores, fpr, tpr,
                   thresholds, out>>

\* st.markdown with the AUC score
Output ==
    /\ pc = "output"
    /\ out' = Append(out, "auc")
    /\ pc' = "plot"
    /\ UNCHANGED <<flood_zip, nonflood_zip, susceptibility_raster, raster,
                   flood_vals, nonflood_vals, y_true, y_scores, fpr, tpr,
                   thresholds, roc_auc>>

\* the matplotlib figure and st.pyplot; may raise
Plot ==
    /\ pc = "plot"
    /\ \/ /\ out' = Append(out, "plot")
          /\ pc' = "done"
       \/ /\ out' = out
          /\ pc' = "except"
    /\ UNCHANGED <<flood_zip, nonflood_zip, susceptibility_raster, raster,
                   flood_vals, nonflood_vals, y_true, y_scores, fpr, tpr,
                   thresholds, roc_auc>>

\* except Exception as e: st.error
Except ==
    /\ pc = "except"
    /\ out' = Append(out, "error")
    /\ pc' = "done"
    /\ UNCHANGED <<flood_zip, nonflood_zip, susceptibility_raster, raster,
                   flood_vals, nonflood_vals, y_true, y_scores, fpr, tpr,
                   thresholds, roc_auc>>

Next ==
    \/ Upload
    \/ EnterTry
    \/ ShowInfo
    \/ LoadData
    \/ Reproject
    \/ Coordinates
    \/ SampleFlood
    \/ SampleNonflood
    \/ AssembleTrue
    \/ AssembleScores
    \/ RemoveNaNs
    \/ ComputeRoc
    \/ ComputeAuc
    \/ Output
    \/ Plot
    \/ Except

Spec == Init /\ [][Next]_vars

(***************************************************************************)
(* The whole core on one assembled dataset: NaN removal, roc_curve, auc    *)
(***************************************************************************)
core(yt0, ys0) ==
    LET valid == valid_mask(ys0)
        yt == MaskIndex(yt0, valid)
        ys == MaskIndex(ys0, valid)
        r == roc_curve(yt, ys)
        a == IF r.raised THEN [raised |-> TRUE, value |-> NaNRate]
             ELSE auc(r.fpr, r.tpr)
    IN  [raised |-> r.raised \/ a.raised, fpr |-> r.fpr, tpr |-> r.tpr,
         roc_auc |-> a.value]

(***************************************************************************)
(* Reference quantities the properties are stated with                     *)
(***************************************************************************)
Idx == 1..Len(y_true)
PosIdx == {i \in Idx : y_true[i] = 1}
NegIdx == {i \in Idx : y_true[i] = 0}
NumPos == Cardinality(PosIdx)
NumNeg == Cardinality(NegIdx)
DistinctScores == {y_scores[i] : i \in 1..Len(y_scores)}

PosAtLeast(t) == Cardinality({i \in PosIdx : y_scores[i] >= t})
NegAtLeast(t) == Cardinality({i \in NegIdx : y_scores[i] >= t})

Concordant == Cardinality({p \in PosIdx \X NegIdx : y_scores[p[1]] > y_scores[p[2]]})
Tied == Cardinality({p \in PosIdx \X NegIdx : y_scores[p[1]] = y_scores[p[2]]})

Shown(kind) == \E i \in 1..Len(out) : out[i] = kind
NotMissing(v) == v # NaN /\ v # NoDataValue
CountIn(s, v) == Cardinality({i \in 1..Len(s) : s[i] = v})

RocComputed == pc \in {"auc", "output", "plot"}
AucComputed == pc \in {"output", "plot"}
Filtered == pc \in {"roc", "auc", "output", "plot"}
BothClasses == NumPos > 0 /\ NumNeg > 0

PointsAt(v) ==
    {i \in 1..Len(thresholds) : ~thresholds[i].inf /\ thresholds[i].value = v}

Higher(v) == {u \in DistinctScores : u > v}
Lower(v) == {w \in DistinctScores : w < v}
NextHigher(v) == CHOOSE u \in Higher(v) : \A x \in Higher(v) : u <= x
NextLower(v) == CHOOSE w \in Lower(v) : \A x \in Lower(v) : w >= x

\* v lies between two other scores and its counts continue the step from the
\* next higher score to the next lower one
Collinear(v) ==
    /\ Higher(v) # {}
    /\ Lower(v) # {}
    /\ NegAtLeast(NextLower(v)) - NegAtLeast(v) = NegAtLeast(v) - NegAtLeast(NextHigher(v))
    /\ PosAtLeast(NextLower(v)) - PosAtLeast(v) = PosAtLeast(v) - PosAtLeast(NextHigher(v))

Perms(s) ==
    {ndarray([k \in 1..Len(s) |-> s[f[k]]]) :
        f \in {g \in [1..Len(s) -> 1..Len(s)] :
                  \A a, b \in 1..Len(s) : a # b => g[a] # g[b]}}

(***************************************************************************)
(* C1: with at least one Positive and one Negative entry, the ROC points   *)
(* are (fp/N, tp/P) with 0 <= fp <= N and 0 <= tp <= P, fp and tp are      *)
(* non-decreasing along the curve, the first point is (0,0) and the last   *)
(* is (1,1).                                                               *)
(***************************************************************************)
C1_RocMonotoneBounded ==
    (RocComputed /\ BothClasses) =>
        /\ Len(fpr) = Len(tpr)
        /\ Len(fpr) >= 2
        /\ \A i \in 1..Len(fpr) :
              /\ fpr[i].den = NumNeg
              /\ tpr[i].den = NumPos
              /\ 0 <= fpr[i].num /\ fpr[i].num <= NumNeg
              /\ 0 <= tpr[i].num /\ tpr[i].num <= NumPos
        /\ \A i \in 1..(Len(fpr) - 1) :
              /\ fpr[i].num <= fpr[i + 1].num
              /\ tpr[i].num <= tpr[i + 1].num
        /\ fpr[1].num = 0 /\ tpr[1].num = 0
        /\ fpr[Len(fpr)].num = NumNeg /\ tpr[Len(tpr)].num = NumPos

C1_Witness ==
    /\ pc = "auc"
    /\ BothClasses
    /\ Len(fpr) >= 4
    /\ \E i \in 2..(Len(fpr) - 1) : 0 < fpr[i].num /\ fpr[i].num < NumNeg

(***************************************************************************)
(* C2: the trapezoidal AUC equals the Mann-Whitney value: 2*P*N*AUC =      *)
(* 2*C + T, with C the concordant (positive, negative) pairs and T the     *)
(* tied ones; positives [0.9, 0.7, 0.4] and negatives [0.6, 0.3, 0.1]      *)
(* give AUC = 8/9.                                                         *)
(***************************************************************************)
C2_AucEqualsMannWhitney ==
    /\ (AucComputed /\ BothClasses) =>
          /\ roc_auc.den = 2 * NumPos * NumNeg
          /\ roc_auc.num = 2 * Concordant + Tied
    /\ (AucComputed /\ flood_vals = <<9, 7, 4>> /\ nonflood_vals = <<6, 3, 1>>) =>
          /\ roc_auc.den > 0
          /\ 9 * roc_auc.num = 8 * roc_auc.den

C2_Witness ==
    /\ pc = "output"
    /\ flood_vals = <<9, 7, 4>>
    /\ nonflood_vals = <<6, 3, 1>>
    /\ Concordant = 8
    /\ Tied = 0

(***************************************************************************)
(* C3: with zero Positive or zero Negative entries after the missing       *)
(* scores are removed, the run ends with an error and shows no AUC.        *)
(***************************************************************************)
C3_SingleClassEndsInError ==
    /\ (Shown("auc")) => BothClasses
    /\ (pc = "done" /\ raster = "open" /\ ~BothClasses) =>
          (Shown("error") /\ ~Shown("auc"))

(***************************************************************************)
(* C4: unless all three files are supplied, nothing is loaded, sampled or  *)
(* computed, no AUC and no error is shown, and the run ends showing only   *)
(* the request for the three files; the computation branch is entered only *)
(* with all three present.                                                 *)
(***************************************************************************)
C4_MissingInputOnlyInfo ==
    /\ (pc \notin {"upload", "guard", "done"}) =>
          (flood_zip /\ nonflood_zip /\ susceptibility_raster)
    /\ (~(flood_zip /\ nonflood_zip /\ susceptibility_raster)) =>
          /\ raster = "closed"
          /\ flood_vals = <<>> /\ nonflood_vals = <<>>
          /\ y_true = <<>> /\ y_scores = <<>>
          /\ fpr = <<>> /\ tpr = <<>> /\ thresholds = <<>>
          /\ roc_auc = NaNRate
          /\ out = (IF pc = "done" THEN <<"info">> ELSE <<>>)
    /\ (Shown("info")) => ~(flood_zip /\ nonflood_zip /\ susceptibility_raster)

C4_Witness ==
    /\ pc = "done"
    /\ flood_zip /\ nonflood_zip /\ ~susceptibility_raster
    /\ out = <<"info">>

(***************************************************************************)
(* C5: the assembler removes every entry whose score is missing            *)
(* (not-a-number or the no-data / out-of-bounds fill) and nothing else:    *)
(* survivors keep their class label and their order, and their number is   *)
(* the number of sampled points minus the number of missing scores.        *)
(***************************************************************************)
C5_RemovesEveryMissingScore ==
    Filtered =>
        LET keptF == SelectSeq(flood_vals, NotMissing)
            keptN == SelectSeq(nonflood_vals, NotMissing)
        IN  /\ y_scores = keptF \o keptN
            /\ y_true = ones(Len(keptF)) \o zeros(Len(keptN))
            /\ NumPos + NumNeg =
                   Len(flood_vals) + Len(nonflood_vals)
                       - CountIn(flood_vals, NaN) - CountIn(nonflood_vals, NaN)
                       - CountIn(flood_vals, NoDataValue)
                       - CountIn(nonflood_vals, NoDataValue)

(***************************************************************************)
(* C6: if every Positive score exceeds every Negative score the AUC is 1;  *)
(* if all scores of both classes are identical the AUC is 0.5.             *)
(***************************************************************************)
C6_BoundaryAuc ==
    (AucComputed /\ BothClasses) =>
        /\ (\A i \in PosIdx, j \in NegIdx : y_scores[i] > y_scores[j]) =>
              (roc_auc.den > 0 /\ roc_auc.num = roc_auc.den)
        /\ (Cardinality(DistinctScores) = 1) =>
              (roc_auc.den > 0 /\ 2 * roc_auc.num = roc_auc.den)

C6_Witness ==
    /\ pc = "output"
    /\ flood_vals = <<5>>
    /\ nonflood_vals = <<5>>
    /\ 2 * roc_auc.num = roc_auc.den

(***************************************************************************)
(* C7: thresholds never split a tie group: every point with a finite       *)
(* threshold t has fpr = (Negatives with score >= t) / N and               *)
(* tpr = (Positives with score >= t) / P.                                  *)
(***************************************************************************)
C7_ThresholdsKeepTieGroups ==
    (RocComputed /\ BothClasses) =>
        /\ Len(thresholds) = Len(fpr)
        /\ \A i \in 1..Len(thresholds) :
              ~thresholds[i].inf =>
                  /\ fpr[i] = Rate(NegAtLeast(thresholds[i].value), NumNeg)
                  /\ tpr[i] = Rate(PosAtLeast(thresholds[i].value), NumPos)

C7_Witness ==
    /\ pc = "auc"
    /\ BothClasses
    /\ Len(thresholds) >= 3
    /\ \E i \in PosIdx, j \in NegIdx : y_scores[i] = y_scores[j]

(***************************************************************************)
(* C8 as stated: one point for every distinct score value, none omitted,   *)
(* in addition to the (0,0) start point.                                   *)
(***************************************************************************)
C8_PointForEveryDistinctScore ==
    (RocComputed /\ BothClasses) =>
        /\ thresholds[1].inf /\ fpr[1].num = 0 /\ tpr[1].num = 0
        /\ Len(thresholds) = 1 + Cardinality(DistinctScores)
        /\ \A v \in DistinctScores :
              \E i \in PointsAt(v) :
                  /\ fpr[i] = Rate(NegAtLeast(v), NumNeg)
                  /\ tpr[i] = Rate(PosAtLeast(v), NumPos)

(***************************************************************************)
(* C8 amended: after the (0,0) start point the curve has at most one point *)
(* per distinct score value v, with threshold v, fpr = fp/N and tpr = tp/P;*)
(* the point of v is omitted exactly when v lies between two other scores  *)
(* and its (fp, tp) is collinear with (equally spaced between) the points  *)
(* of the next higher and the next lower score; every other distinct score *)
(* has its point, and every finite threshold is an observed score.         *)
(***************************************************************************)
C8_PointUnlessCollinear ==
    (RocComputed /\ BothClasses) =>
        /\ thresholds[1].inf /\ fpr[1].num = 0 /\ tpr[1].num = 0
        /\ \A i \in 2..Len(thresholds) :
              ~thresholds[i].inf /\ thresholds[i].value \in DistinctScores
        /\ \A v \in DistinctScores :
              IF Collinear(v)
              THEN PointsAt(v) = {}
              ELSE \E i \in 1..Len(thresholds) :
                      /\ PointsAt(v) = {i}
                      /\ fpr[i] = Rate(NegAtLeast(v), NumNeg)
                      /\ tpr[i] = Rate(PosAtLeast(v), NumPos)

C8_Witness ==
    /\ pc = "auc"
    /\ BothClasses
    /\ \E v \in DistinctScores : Collinear(v)
    /\ \E v \in DistinctScores :
          Higher(v) # {} /\ Lower(v) # {} /\ ~Collinear(v) /\ PointsAt(v) # {}

(***************************************************************************)
(* C9: the result does not depend on the order of the entries: permuting   *)
(* the points within a class, or concatenating the Negatives before the    *)
(* Positives, gives the same (fpr, tpr) points and the same AUC.           *)
(***************************************************************************)
C9_OrderIndependent ==
    (pc = "output") =>
        \A pf \in Perms(flood_vals), pn \in Perms(nonflood_vals) :
            LET a == core(assemble_true(pf, pn), assemble_scores(pf, pn))
                b == core(concatenate(zeros(Len(pn)), ones(Len(pf))),
                          concatenate(pn, pf))
                same == [raised |-> FALSE, fpr |-> fpr, tpr |-> tpr,
                         roc_auc |-> roc_auc]
            IN  a = same /\ b = same

C9_Witness ==
    /\ pc = "output"
    /\ BothClasses
    /\ Cardinality(Perms(flood_vals)) >= 2
    /\ Cardinality(Perms(nonflood_vals)) >= 2
    /\ \E i \in PosIdx, j \in NegIdx : y_scores[i] = y_scores[j]

(***************************************************************************)
(* C10: an error outcome and an AUC output are mutually exclusive in a     *)
(* run: whichever step fails, plotting included, the run ends with the     *)
(* error message and without having displayed an AUC score.                *)
(***************************************************************************)
C10_ErrorExcludesAuc ==
    ~(Shown("auc") /\ Shown("error"))

====
